---- MODULE Spec2Model ----
(***************************************************************************)
(* 02u6: a proxy that translates OpenAI chat-completion requests into      *)
(* Ollama generate requests (main.go).  Each inbound HTTP request is       *)
(* served by its own handler: corsMiddleware, then handleChatCompletions,  *)
(* which validates, builds the Ollama request, calls sendToOllama and      *)
(* writes either a chat completion or an error body.                       *)
(*                                                                         *)
(* Texts whose length or content matters (roles, contents, prompts, model  *)
(* names, backend bodies, error messages) are sequences of one-character   *)
(* strings (error-message literals are kept as single tokens).  A JSON     *)
(* object is a function from the keys present in it to their values, so    *)
(* that an absent key and a zero value are different inputs.  An optional  *)
(* value is a sequence of length 0 or 1.                                   *)
(***************************************************************************)
EXTENDS Integers, Sequences, FiniteSets, TLC

VARIABLES
    pc,          \* pc[i]: where handler i stands
    httpReq,     \* httpReq[i]: the inbound request (r), once arrived
    w,           \* w[i]: the http.ResponseWriter of handler i
    openAIReq,   \* openAIReq[i]: the decoded OpenAIChatRequest
    ollamaReq,   \* ollamaReq[i]: the OllamaRequest built by the handler
    backendIn,   \* backendIn[i]: the JSON bodies handler i has POSTed to Ollama
    backendOut,  \* backendOut[i]: Ollama's answer to handler i's call
    ollamaResp,  \* ollamaResp[i]: the OllamaResponse sendToOllama returned
    openAIResp,  \* openAIResp[i]: the OpenAIChatResponse built by the handler
    trace        \* trace[i]: the stages handleChatCompletions has run for i

vars == <<pc, httpReq, w, openAIReq, ollamaReq, backendIn, backendOut,
          ollamaResp, openAIResp, trace>>

(***************************************************************************)
(* Bounds of the model.                                                    *)
(***************************************************************************)
NumRequests == 2      \* requests in flight at once in Spec
MaxMsgs == 2          \* longest message list of a request in SpecTranslate
MaxTime == 1          \* latest wall-clock second a response is built at

Handlers == 1..NumRequests

(***************************************************************************)
(* net/http status codes used by main.go.                                  *)
(***************************************************************************)
StatusOK == 200
StatusBadRequest == 400
StatusMethodNotAllowed == 405
StatusInternalServerError == 500

CONTENT_TYPE_JSON == "application/json"

(***************************************************************************)
(* Texts.                                                                  *)
(***************************************************************************)
NL == "\n"

SeqsUpTo(S, n) == UNION {[1..k -> S] : k \in 0..n}

RECURSIVE Concat(_)
Concat(ss) == IF ss = <<>> THEN <<>> ELSE Head(ss) \o Concat(Tail(ss))

\* sub occurs in s as a contiguous piece (strings.Contains)
Contains(s, sub) ==
    \E k \in 0..(Len(s) - Len(sub)) :
        \A j \in 1..Len(sub) : s[k + j] = sub[j]

Digit(d) ==
    CASE d = 0 -> "0" [] d = 1 -> "1" [] d = 2 -> "2" [] d = 3 -> "3"
      [] d = 4 -> "4" [] d = 5 -> "5" [] d = 6 -> "6" [] d = 7 -> "7"
      [] d = 8 -> "8" [] d = 9 -> "9"

\* fmt's %d of a non-negative integer
RECURSIVE Itoa(_)
Itoa(n) == IF n < 10 THEN <<Digit(n)>> ELSE Itoa(n \div 10) \o <<Digit(n % 10)>>

(***************************************************************************)
(* JSON objects: a function from the keys present to their values.         *)
(***************************************************************************)
EmptyObj == [k \in {} |-> 0]

\* the object holding key k when the optional value opt is present
Field(k, opt) == IF opt = <<>> THEN EmptyObj ELSE (k :> opt[1])

Has(obj, k) == k \in DOMAIN obj

\* encoding/json: a key absent from the input leaves the field at its zero value
Get(obj, k, zero) == IF Has(obj, k) THEN obj[k] ELSE zero

\* encoding/json `omitempty`: a zero number is left out of the output
OmitEmpty(k, v) == IF v = 0 THEN EmptyObj ELSE (k :> v)

(***************************************************************************)
(* Go structs of main.go and their JSON forms.                             *)
(***************************************************************************)
ChatMessage(role, content) == [Role |-> role, Content |-> content]

\* json.NewDecoder(r.Body).Decode(&openAIReq): the body either fails to
\* decode (parsed = <<>>) or decodes to an object; keys absent from the
\* object leave the struct's fields at their zero values.
DecodeOK(body) == body.parsed # <<>>

Decode(body) ==
    LET obj == body.parsed[1] IN
    [Model       |-> Get(obj, "model", <<>>),
     Messages    |-> Get(obj, "messages", <<>>),
     Temperature |-> Get(obj, "temperature", 0),
     MaxTokens   |-> Get(obj, "max_tokens", 0),
     Stream      |-> Get(obj, "stream", FALSE)]

\* json.Marshal(req) of an OllamaRequest: temperature and num_predict are
\* `omitempty`, model, prompt, stream and options are always written.
MarshalOllamaRequest(req) ==
    [model   |-> req.Model,
     prompt  |-> req.Prompt,
     stream  |-> req.Stream,
     options |-> OmitEmpty("temperature", req.Options.Temperature)
                 @@ OmitEmpty("num_predict", req.Options.NumPredict)]

\* json.Unmarshal(body, &ollamaResp): fails on a body that is not JSON
UnmarshalOK(body) == body.parsed # <<>>

UnmarshalOllamaResponse(body) ==
    LET obj == body.parsed[1] IN
    [Model    |-> Get(obj, "model", <<>>),
     Response |-> Get(obj, "response", <<>>),
     Done     |-> Get(obj, "done", FALSE)]

(***************************************************************************)
(* convertMessagesToPrompt                                                 *)
(***************************************************************************)
\* convertMessagesToPrompt with the messages prepended instead of appended
RECURSIVE convertMessagesToPrompt_Prepend(_)
convertMessagesToPrompt_Prepend(messages) ==
    IF messages = <<>> THEN <<>>
    ELSE convertMessagesToPrompt_Prepend(Tail(messages))
         \o Head(messages).Role \o <<":", " ">> \o Head(messages).Content \o <<NL>>

RECURSIVE convertMessagesToPrompt(_)
convertMessagesToPrompt(messages) ==
    IF messages = <<>> THEN <<>>
    ELSE Head(messages).Role \o <<":", " ">> \o Head(messages).Content \o <<NL>>
         \o convertMessagesToPrompt(Tail(messages))

(***************************************************************************)
(* generateRandomString, getCurrentUnixTimestamp: the id suffix is drawn   *)
(* at random from the letters, the timestamp is the wall clock; both are   *)
(* inputs of the step that builds the response.                            *)
(***************************************************************************)
IdSuffixes == { <<"g","r","e","a","t","J","o","b","O","n">>,
                <<"0","0","0","R","e","g","e","x","0","0">> }

Timestamps == 0..MaxTime

(***************************************************************************)
(* http.ResponseWriter                                                     *)
(***************************************************************************)
NoHeaders == [k \in {} |-> ""]

FreshWriter == [headers |-> NoHeaders, status |-> 0, body |-> <<>>]

\* w.Header().Set(k, v)
SetHeader(rw, k, v) == [rw EXCEPT !.headers = (k :> v) @@ rw.headers]

\* w.WriteHeader(status): a second call is ignored by net/http
WriteHeader(rw, status) ==
    IF rw.status = 0 THEN [rw EXCEPT !.status = status] ELSE rw

\* json.NewEncoder(w).Encode(v): the first write sends status 200 if
\* WriteHeader was not called
Encode(rw, v) ==
    [WriteHeader(rw, StatusOK) EXCEPT !.body = Append(rw.body, v)]

ErrorResponse(message, errorType, code) ==
    [error |-> [message |-> message, type |-> errorType, code |-> code]]

sendError(rw, message, errorType, code, status) ==
    Encode(WriteHeader(SetHeader(rw, "Content-Type", CONTENT_TYPE_JSON), status),
           ErrorResponse(message, errorType, code))

(***************************************************************************)
(* handleChatCompletions, lines 104-123: the first failing check decides.  *)
(* <<>> when the request passes, else the arguments of sendError.          *)
(***************************************************************************)
\* Rejection with the model check placed before the messages check
Rejection_ModelFirst(req) ==
    IF req.method # "POST" THEN
        << [message |-> <<"Method not allowed">>, type |-> "invalid_request_error",
            code |-> "method_not_allowed", status |-> StatusMethodNotAllowed] >>
    ELSE IF ~DecodeOK(req.body) THEN
        << [message |-> <<"Invalid request body">>, type |-> "invalid_request_error",
            code |-> "invalid_body", status |-> StatusBadRequest] >>
    ELSE IF Decode(req.body).Model = <<>> THEN
        << [message |-> <<"Model is required">>, type |-> "invalid_request_error",
            code |-> "invalid_model", status |-> StatusBadRequest] >>
    ELSE IF Len(Decode(req.body).Messages) = 0 THEN
        << [message |-> <<"Messages array is empty">>, type |-> "invalid_request_error",
            code |-> "invalid_messages", status |-> StatusBadRequest] >>
    ELSE <<>>

Rejection(req) ==
    IF req.method # "POST" THEN
        << [message |-> <<"Method not allowed">>, type |-> "invalid_request_error",
            code |-> "method_not_allowed", status |-> StatusMethodNotAllowed] >>
    ELSE IF ~DecodeOK(req.body) THEN
        << [message |-> <<"Invalid request body">>, type |-> "invalid_request_error",
            code |-> "invalid_body", status |-> StatusBadRequest] >>
    ELSE IF Len(Decode(req.body).Messages) = 0 THEN
        << [message |-> <<"Messages array is empty">>, type |-> "invalid_request_error",
            code |-> "invalid_messages", status |-> StatusBadRequest] >>
    ELSE IF Decode(req.body).Model = <<>> THEN
        << [message |-> <<"Model is required">>, type |-> "invalid_request_error",
            code |-> "invalid_model", status |-> StatusBadRequest] >>
    ELSE <<>>

(***************************************************************************)
(* handleChatCompletions, lines 125-138: the OllamaRequest.                *)
(***************************************************************************)
\* BuildOllamaRequest without the `> 0` guards
BuildOllamaRequest_ForwardAll(req) ==
    [Model   |-> req.Model,
     Prompt  |-> convertMessagesToPrompt(req.Messages),
     Stream  |-> req.Stream,
     Options |-> [Temperature |-> req.Temperature, NumPredict |-> req.MaxTokens]]

BuildOllamaRequest(req) ==
    [Model   |-> req.Model,
     Prompt  |-> convertMessagesToPrompt(req.Messages),
     Stream  |-> req.Stream,
     Options |-> [Temperature |-> IF req.Temperature > 0 THEN req.Temperature ELSE 0,
                  NumPredict  |-> IF req.MaxTokens > 0 THEN req.MaxTokens ELSE 0]]

(***************************************************************************)
(* sendToOllama, lines 177-198: what it returns for the backend's answer.  *)
(* A reply is [connected, status, body, readErr]: http.Post failed         *)
(* (connected = FALSE), or it returned a status and a body of which        *)
(* io.ReadAll delivered body.text, with or without a read error.           *)
(***************************************************************************)
\* SendToOllamaResult without the check of resp.StatusCode
SendToOllamaResult_IgnoreStatus(rep) ==
    IF ~rep.connected THEN
        [err  |-> << <<"failed to connect to Ollama: ", "connection refused">> >>,
         resp |-> <<>>]
    ELSE IF rep.readErr THEN
        [err  |-> << <<"failed to read response: ", "unexpected EOF">> >>,
         resp |-> <<>>]
    ELSE IF ~UnmarshalOK(rep.body) THEN
        [err  |-> << <<"failed to parse response: ", "invalid character">> >>,
         resp |-> <<>>]
    ELSE
        [err  |-> <<>>, resp |-> << UnmarshalOllamaResponse(rep.body) >>]

SendToOllamaResult(rep) ==
    IF ~rep.connected THEN
        [err  |-> << <<"failed to connect to Ollama: ", "connection refused">> >>,
         resp |-> <<>>]
    ELSE IF rep.status # StatusOK THEN
        [err  |-> << <<"ollama API error (status ">> \o Itoa(rep.status)
                     \o <<"): ">> \o rep.body.text >>,
         resp |-> <<>>]
    ELSE IF rep.readErr THEN
        [err  |-> << <<"failed to read response: ", "unexpected EOF">> >>,
         resp |-> <<>>]
    ELSE IF ~UnmarshalOK(rep.body) THEN
        [err  |-> << <<"failed to parse response: ", "invalid character">> >>,
         resp |-> <<>>]
    ELSE
        [err  |-> <<>>, resp |-> << UnmarshalOllamaResponse(rep.body) >>]

(***************************************************************************)
(* handleChatCompletions, lines 146-166: the OpenAIChatResponse.           *)
(***************************************************************************)
Usage(prompt, response) ==
    [prompt_tokens     |-> Len(prompt) \div 4,
     completion_tokens |-> Len(response) \div 4,
     total_tokens      |-> (Len(prompt) + Len(response)) \div 4]

\* BuildOpenAIResponse reporting the model named in the backend's reply
BuildOpenAIResponse_BackendModel(oreq, oresp, suffix, now) ==
    [id      |-> <<"chatcmpl-">> \o suffix,
     object  |-> "chat.completion",
     created |-> now,
     model   |-> oresp.Model,
     choices |-> << [index |-> 0,
                     message |-> [role |-> "assistant", content |-> oresp.Response],
                     finish_reason |-> "stop"] >>,
     usage   |-> Usage(oreq.Prompt, oresp.Response)]

BuildOpenAIResponse(oreq, oresp, suffix, now) ==
    [id      |-> <<"chatcmpl-">> \o suffix,
     object  |-> "chat.completion",
     created |-> now,
     model   |-> oreq.Model,
     choices |-> << [index |-> 0,
                     message |-> [role |-> "assistant", content |-> oresp.Response],
                     finish_reason |-> "stop"] >>,
     usage   |-> Usage(oreq.Prompt, oresp.Response)]

(***************************************************************************)
(* Inputs: the requests clients send and the answers Ollama gives.         *)
(***************************************************************************)
Methods == {"POST", "OPTIONS", "GET"}

ModelM == <<"m">>
ModelX == <<"x">>

User == <<"u","s","e","r">>

\* two messages free of newlines, one with a newline in its content and one
\* with a newline in its role
Messages ==
    { ChatMessage(User, <<"H","i">>),
      ChatMessage(User, <<>>),
      ChatMessage(User, <<"a",NL,"b">>),
      ChatMessage(<<"a",NL>>, <<"H","i">>) }

Opt(S) == {<<>>} \cup {<<x>> : x \in S}

JsonBody(model, messages, temperature, maxTokens, stream) ==
    [parsed |-> << Field("model", model) @@ Field("messages", messages)
                   @@ Field("temperature", temperature)
                   @@ Field("max_tokens", maxTokens) @@ Field("stream", stream) >>]

\* a body json.Decoder rejects
BadBody == [parsed |-> <<>>]

FrontBodies ==
    {BadBody} \cup
    {JsonBody(m, ms, t, n, s) :
        m \in Opt({<<>>, ModelM}), ms \in Opt(SeqsUpTo(Messages, MaxMsgs)),
        t \in Opt({-3, 0, 7}), n \in Opt({-1, 0, 16}), s \in Opt({FALSE, TRUE})}

HttpRequests == {[method |-> m, body |-> b] : m \in Methods, b \in FrontBodies}

UserHi == << ChatMessage(User, <<"H","i">>) >>

\* the requests of the concurrent specification: one for every path
\* through the handler, and two that differ only in stream
SampleRequests ==
    { [method |-> "GET",     body |-> JsonBody(<<ModelM>>, <<UserHi>>, <<>>, <<>>, <<>>)],
      [method |-> "OPTIONS", body |-> BadBody],
      [method |-> "POST",    body |-> BadBody],
      [method |-> "POST",    body |-> JsonBody(<<ModelM>>, <<>>, <<>>, <<>>, <<>>)],
      [method |-> "POST",    body |-> JsonBody(<<>>, <<UserHi>>, <<>>, <<>>, <<>>)],
      [method |-> "POST",    body |-> JsonBody(<<ModelM>>, <<UserHi>>, <<7>>, <<>>, <<FALSE>>)],
      [method |-> "POST",    body |-> JsonBody(<<ModelM>>, <<UserHi>>, <<7>>, <<>>, <<TRUE>>)] }

\* bodies Ollama answers with: the raw text and, when the text is a JSON
\* object, the object
TextBody(text) == [text |-> text, parsed |-> <<>>]

GenerateBody(model, response, done) ==
    [text   |-> <<"{">> \o Concat(<< IF model = <<>> THEN <<>>
                                     ELSE <<"model:">> \o model[1] \o <<";">>,
                                     IF response = <<>> THEN <<>>
                                     ELSE <<"response:">> \o response[1] \o <<";">>,
                                     IF done = <<>> THEN <<>>
                                     ELSE <<"done:", IF done[1] THEN "true" ELSE "false">> >>)
               \o <<"}">>,
     parsed |-> << Field("model", model) @@ Field("response", response)
                   @@ Field("done", done) >>]

Oops == TextBody(<<"o","o","p","s">>)
SaysHi == GenerateBody(<<ModelX>>, << <<"H","i">> >>, <<TRUE>>)

BackendBodies ==
    { Oops,
      GenerateBody(<<>>, <<>>, <<>>),
      SaysHi,
      GenerateBody(<<ModelM>>, << <<"y","e","s">> >>, <<FALSE>>) }

ConnectError == [connected |-> FALSE, status |-> 0, body |-> TextBody(<<>>),
                 readErr |-> FALSE]

Reply(status, body, readErr) ==
    [connected |-> TRUE, status |-> status, body |-> body, readErr |-> readErr]

Replies ==
    {ConnectError}
    \cup {Reply(st, b, FALSE) : st \in {200, 404, 500}, b \in BackendBodies}
    \cup {Reply(200, TextBody(<<"{">>), TRUE)}

SampleReplies ==
    { ConnectError, Reply(404, Oops, FALSE), Reply(200, Oops, FALSE),
      Reply(200, SaysHi, FALSE) }

(***************************************************************************)
(* The handlers.                                                           *)
(***************************************************************************)
Init ==
    /\ pc = [i \in Handlers |-> "idle"]
    /\ httpReq = [i \in Handlers |-> <<>>]
    /\ w = [i \in Handlers |-> FreshWriter]
    /\ openAIReq = [i \in Handlers |-> <<>>]
    /\ ollamaReq = [i \in Handlers |-> <<>>]
    /\ backendIn = [i \in Handlers |-> <<>>]
    /\ backendOut = [i \in Handlers |-> <<>>]
    /\ ollamaResp = [i \in Handlers |-> <<>>]
    /\ openAIResp = [i \in Handlers |-> <<>>]
    /\ trace = [i \in Handlers |-> <<>>]

\* net/http hands a request, one of `requests`, to a new goroutine running
\* the handler
Arrive(i, requests) ==
    /\ pc[i] = "idle"
    /\ \E r \in requests : httpReq' = [httpReq EXCEPT ![i] = <<r>>]
    /\ pc' = [pc EXCEPT ![i] = "cors"]
    /\ UNCHANGED <<w, openAIReq, ollamaReq, backendIn, backendOut, ollamaResp,
                   openAIResp, trace>>

CorsHeaders(rw) ==
    SetHeader(SetHeader(SetHeader(SetHeader(rw,
        "Access-Control-Allow-Origin", "*"),
        "Access-Control-Allow-Methods", "POST, OPTIONS"),
        "Access-Control-Allow-Headers", "Content-Type, Authorization"),
        "Access-Control-Max-Age", "3600")

\* corsMiddleware without the return after WriteHeader
corsMiddleware_FallThrough(rw, r) ==
    IF r.method = "OPTIONS"
    THEN <<WriteHeader(CorsHeaders(rw), StatusOK), "validate">>
    ELSE <<CorsHeaders(rw), "validate">>

\* corsMiddleware: <<the writer, where the request goes next>>
corsMiddleware(rw, r) ==
    IF r.method = "OPTIONS"
    THEN <<WriteHeader(CorsHeaders(rw), StatusOK), "done">>
    ELSE <<CorsHeaders(rw), "validate">>

CorsMiddleware(i) ==
    /\ pc[i] = "cors"
    /\ w' = [w EXCEPT ![i] = corsMiddleware(w[i], httpReq[i][1])[1]]
    /\ pc' = [pc EXCEPT ![i] = corsMiddleware(w[i], httpReq[i][1])[2]]
    /\ UNCHANGED <<httpReq, openAIReq, ollamaReq, backendIn, backendOut,
                   ollamaResp, openAIResp, trace>>

\* handleChatCompletions, lines 102-123
Validate(i) ==
    /\ pc[i] = "validate"
    /\ trace' = [trace EXCEPT ![i] = Append(@, "Validate")]
    /\ LET r   == httpReq[i][1]
           rw  == SetHeader(w[i], "Content-Type", CONTENT_TYPE_JSON)
           rej == Rejection(r)
       IN IF rej # <<>>
          THEN /\ w' = [w EXCEPT ![i] = sendError(rw, rej[1].message, rej[1].type,
                                                  rej[1].code, rej[1].status)]
               /\ pc' = [pc EXCEPT ![i] = "done"]
               /\ UNCHANGED openAIReq
          ELSE /\ w' = [w EXCEPT ![i] = rw]
               /\ openAIReq' = [openAIReq EXCEPT ![i] = <<Decode(r.body)>>]
               /\ pc' = [pc EXCEPT ![i] = "build"]
    /\ UNCHANGED <<httpReq, ollamaReq, backendIn, backendOut, ollamaResp, openAIResp>>

\* handleChatCompletions, lines 125-138
BuildBackRequest(i) ==
    /\ pc[i] = "build"
    /\ trace' = [trace EXCEPT ![i] = Append(@, "BuildBackRequest")]
    /\ ollamaReq' = [ollamaReq EXCEPT ![i] = <<BuildOllamaRequest(openAIReq[i][1])>>]
    /\ pc' = [pc EXCEPT ![i] = "invoke"]
    /\ UNCHANGED <<httpReq, w, openAIReq, backendIn, backendOut, ollamaResp, openAIResp>>

\* sendToOllama, lines 172-177: marshal the request and POST it
SendToOllama(i) ==
    /\ pc[i] = "invoke"
    /\ trace' = [trace EXCEPT ![i] = Append(@, "Invoke")]
    /\ backendIn' = [backendIn EXCEPT ![i] = Append(@, MarshalOllamaRequest(ollamaReq[i][1]))]
    /\ pc' = [pc EXCEPT ![i] = "waiting"]
    /\ UNCHANGED <<httpReq, w, openAIReq, ollamaReq, backendOut, ollamaResp, openAIResp>>

\* Ollama (or the network) answers the call of handler i with one of `replies`
BackendReply(i, replies) ==
    /\ pc[i] = "waiting"
    /\ \E rep \in replies : backendOut' = [backendOut EXCEPT ![i] = <<rep>>]
    /\ pc' = [pc EXCEPT ![i] = "replied"]
    /\ UNCHANGED <<httpReq, w, openAIReq, ollamaReq, backendIn, ollamaResp,
                   openAIResp, trace>>

\* handleResult calling the backend again after a failed call
handleResult_Retry(rw, res) ==
    IF res.err # <<>>
    THEN <<rw, <<>>, "invoke">>
    ELSE <<rw, res.resp, "respond">>

\* what handleChatCompletions does with sendToOllama's result, lines 140-144:
\* <<the writer, the OllamaResponse if any, where the request goes next>>
handleResult(rw, res) ==
    IF res.err # <<>>
    THEN <<sendError(rw, <<"Error calling Ollama API: ">> \o res.err[1],
                     "server_error", "internal_error", StatusInternalServerError),
           <<>>, "done">>
    ELSE <<rw, res.resp, "respond">>

\* HandleReply reading the reply from a variable all handlers share
HandleReply_SharedReply(i) ==
    /\ pc[i] = "replied"
    /\ LET j == CHOOSE j \in Handlers : backendOut[j] # <<>>
           out == handleResult(w[i], SendToOllamaResult(backendOut[j][1]))
       IN /\ w' = [w EXCEPT ![i] = out[1]]
          /\ ollamaResp' = [ollamaResp EXCEPT ![i] = out[2]]
          /\ pc' = [pc EXCEPT ![i] = out[3]]
    /\ UNCHANGED <<httpReq, openAIReq, ollamaReq, backendIn, backendOut,
                   openAIResp, trace>>

\* sendToOllama returns, lines 178-198 and 140-144
HandleReply(i) ==
    /\ pc[i] = "replied"
    /\ LET out == handleResult(w[i], SendToOllamaResult(backendOut[i][1]))
       IN /\ w' = [w EXCEPT ![i] = out[1]]
          /\ ollamaResp' = [ollamaResp EXCEPT ![i] = out[2]]
          /\ pc' = [pc EXCEPT ![i] = out[3]]
    /\ UNCHANGED <<httpReq, openAIReq, ollamaReq, backendIn, backendOut,
                   openAIResp, trace>>

\* handleChatCompletions, lines 146-166
BuildFrontResponse(i) ==
    /\ pc[i] = "respond"
    /\ trace' = [trace EXCEPT ![i] = Append(@, "BuildFrontResponse")]
    /\ \E suffix \in IdSuffixes, now \in Timestamps :
          openAIResp' = [openAIResp EXCEPT ![i] =
              <<BuildOpenAIResponse(ollamaReq[i][1], ollamaResp[i][1], suffix, now)>>]
    /\ pc' = [pc EXCEPT ![i] = "emit"]
    /\ UNCHANGED <<httpReq, w, openAIReq, ollamaReq, backendIn, backendOut, ollamaResp>>

\* handleChatCompletions, line 168
Emit(i) ==
    /\ pc[i] = "emit"
    /\ trace' = [trace EXCEPT ![i] = Append(@, "Emit")]
    /\ w' = [w EXCEPT ![i] = Encode(@, openAIResp[i][1])]
    /\ pc' = [pc EXCEPT ![i] = "done"]
    /\ UNCHANGED <<httpReq, openAIReq, ollamaReq, backendIn, backendOut,
                   ollamaResp, openAIResp>>

Step(i) ==
    \/ CorsMiddleware(i)
    \/ Validate(i)
    \/ BuildBackRequest(i)
    \/ SendToOllama(i)
    \/ HandleReply(i)
    \/ BuildFrontResponse(i)
    \/ Emit(i)

\* the server: NumRequests requests handled concurrently
Next ==
    \E i \in Handlers :
        \/ Arrive(i, SampleRequests)
        \/ BackendReply(i, SampleReplies)
        \/ Step(i)

Spec == Init /\ [][Next]_vars

\* one request, over every request and every backend answer of the bounds
NextTranslate ==
    \/ Arrive(1, HttpRequests)
    \/ BackendReply(1, Replies)
    \/ Step(1)

SpecTranslate == Init /\ [][NextTranslate]_vars

(***************************************************************************)
(* Properties.                                                             *)
(***************************************************************************)
Done(i) == pc[i] = "done"

\* the JSON object of the body of request i (when the body decodes)
FrontObj(i) == httpReq[i][1].body.parsed[1]

IsChat(b) == "choices" \in DOMAIN b
IsError(b) == "error" \in DOMAIN b

\* handler i has answered with exactly the error body (type, code) and status
AnsweredError(i, status, type, code) ==
    /\ w[i].status = status
    /\ Len(w[i].body) = 1
    /\ IsError(w[i].body[1])
    /\ w[i].body[1].error.type = type
    /\ w[i].body[1].error.code = code

\* C1: every successful (status 200) response has usage.total_tokens =
\* usage.prompt_tokens + usage.completion_tokens, with prompt_tokens =
\* len(flattened prompt)/4 and completion_tokens = len(backend response
\* text)/4 by integer division.
C1_TotalIsSum ==
    \A i \in Handlers :
        (Done(i) /\ w[i].status = StatusOK /\ w[i].body # <<>>) =>
            LET u == w[i].body[1].usage
                prompt == convertMessagesToPrompt(FrontObj(i)["messages"])
                text == Get(backendOut[i][1].body.parsed[1], "response", <<>>)
            IN /\ u.prompt_tokens = Len(prompt) \div 4
               /\ u.completion_tokens = Len(text) \div 4
               /\ u.total_tokens = u.prompt_tokens + u.completion_tokens

\* the lines of a text: the pieces its newline characters end (and a last
\* unterminated piece, if any)
RECURSIVE LinesOf(_)
LinesOf(s) ==
    IF s = <<>> THEN <<>>
    ELSE IF \E k \in 1..Len(s) : s[k] = NL
         THEN LET k == CHOOSE k \in 1..Len(s) :
                           s[k] = NL /\ \A j \in 1..(k - 1) : s[j] # NL
              IN <<SubSeq(s, 1, k - 1)>> \o LinesOf(SubSeq(s, k + 1, Len(s)))
         ELSE <<s>>

MessageLines(messages) ==
    [k \in 1..Len(messages) |-> messages[k].Role \o <<":", " ">> \o messages[k].Content]

NoNewline(s) == \A k \in 1..Len(s) : s[k] # NL

\* C2 (as claimed): for every non-empty message sequence, newlines in roles
\* and contents included, the prompt has exactly one line per message, in
\* input order, the i-th line being "<role_i>: <content_i>".
C2_OneLinePerMessage ==
    \A i \in Handlers :
        ollamaReq[i] # <<>> =>
            LinesOf(ollamaReq[i][1].Prompt) = MessageLines(FrontObj(i)["messages"])

\* C2 (amended): for every non-empty message sequence whose roles and
\* contents contain no newline character, the prompt has exactly one line
\* per message, in input order, the i-th line being "<role_i>: <content_i>".
C2_OneLinePerMessageNoNewline ==
    \A i \in Handlers :
        (/\ ollamaReq[i] # <<>>
         /\ \A k \in 1..Len(FrontObj(i)["messages"]) :
                /\ NoNewline(FrontObj(i)["messages"][k].Role)
                /\ NoNewline(FrontObj(i)["messages"][k].Content)) =>
            LinesOf(ollamaReq[i][1].Prompt) = MessageLines(FrontObj(i)["messages"])

\* two different newline-free messages have been flattened, in that order
C2_Witness ==
    \E i \in Handlers :
        /\ ollamaReq[i] # <<>>
        /\ FrontObj(i)["messages"] =
               << ChatMessage(User, <<"H","i">>), ChatMessage(User, <<>>) >>
        /\ LinesOf(ollamaReq[i][1].Prompt) =
               << <<"u","s","e","r",":"," ","H","i">>, <<"u","s","e","r",":"," ">> >>

\* the bodies of requests a and b are JSON objects that agree on every key
\* other than stream
DifferOnlyInStream(a, b) ==
    /\ a.method = b.method
    /\ a.body.parsed # <<>> /\ b.body.parsed # <<>>
    /\ LET x == a.body.parsed[1]
           y == b.body.parsed[1]
       IN /\ DOMAIN x \ {"stream"} = DOMAIN y \ {"stream"}
          /\ \A k \in DOMAIN x \ {"stream"} : x[k] = y[k]

\* the status and content the caller of handler i received
SameAnswer(i, j) ==
    /\ w[i].status = w[j].status
    /\ Len(w[i].body) = Len(w[j].body)
    /\ \A k \in 1..Len(w[i].body) :
          /\ IsChat(w[i].body[k]) = IsChat(w[j].body[k])
          /\ IF IsChat(w[i].body[k])
             THEN w[i].body[k].choices = w[j].body[k].choices
             ELSE w[i].body[k] = w[j].body[k]

\* C3: the stream field is ignored: two POST requests that differ only in
\* stream send the same request to the backend and, given the same backend
\* behaviour, their callers receive the same status and content.
C3_StreamIgnored ==
    \A i, j \in Handlers :
        (/\ httpReq[i] # <<>> /\ httpReq[j] # <<>>
         /\ httpReq[i][1].method = "POST"
         /\ DifferOnlyInStream(httpReq[i][1], httpReq[j][1])) =>
            /\ (backendIn[i] # <<>> /\ backendIn[j] # <<>>) =>
                   backendIn[i] = backendIn[j]
            /\ (Done(i) /\ Done(j) /\ backendOut[i] = backendOut[j]) =>
                   SameAnswer(i, j)

EmptyOrAbsent(obj, k) == ~Has(obj, k) \/ obj[k] = <<>>

BackendFailed(rep) ==
    \/ ~rep.connected
    \/ rep.status # 200
    \/ rep.readErr
    \/ rep.body.parsed = <<>>

StatusText(st) ==
    CASE st = 404 -> <<"4","0","4">>
      [] st = 500 -> <<"5","0","0">>
      [] st = 200 -> <<"2","0","0">>

\* C5: whenever the backend call fails, the caller receives status 500 with
\* an error body of type server_error and code internal_error, never a 200
\* chat completion; when the failure is a non-200 reply, the message holds
\* the backend's status code and its raw body text.
C5_BackendFailure ==
    \A i \in Handlers :
        (Done(i) /\ backendOut[i] # <<>> /\ BackendFailed(backendOut[i][1])) =>
            LET rep == backendOut[i][1] IN
            /\ AnsweredError(i, 500, "server_error", "internal_error")
            /\ (rep.connected /\ rep.status # 200) =>
                  /\ Contains(w[i].body[1].error.message, StatusText(rep.status))
                  /\ Contains(w[i].body[1].error.message, rep.body.text)

\* a 404 whose body is a JSON object was answered with a 500 naming both
C5_Witness ==
    \E i \in Handlers :
        /\ Done(i) /\ backendOut[i] # <<>>
        /\ backendOut[i][1].connected
        /\ backendOut[i][1].status = 404
        /\ backendOut[i][1].body.parsed # <<>>
        /\ AnsweredError(i, 500, "server_error", "internal_error")
        /\ Contains(w[i].body[1].error.message, <<"4","0","4">>)

\* C6: in the backend request, options.temperature is set, and equal to the
\* front temperature, exactly when the front temperature is strictly
\* positive (unset when zero, negative or absent); likewise num_predict and
\* max_tokens; model equals the front model and prompt the flattened
\* messages.
C6_OptionsForwarded ==
    \A i \in Handlers :
        backendIn[i] # <<>> =>
            LET front == FrontObj(i)
                back == backendIn[i][1]
            IN /\ Has(back.options, "temperature") <=>
                      (Has(front, "temperature") /\ front["temperature"] > 0)
               /\ Has(back.options, "temperature") =>
                      back.options["temperature"] = front["temperature"]
               /\ Has(back.options, "num_predict") <=>
                      (Has(front, "max_tokens") /\ front["max_tokens"] > 0)
               /\ Has(back.options, "num_predict") =>
                      back.options["num_predict"] = front["max_tokens"]
               /\ back.model = front["model"]
               /\ back.prompt = convertMessagesToPrompt(front["messages"])

\* a request with a negative temperature and a positive max_tokens was sent
C6_Witness ==
    \E i \in Handlers :
        /\ backendIn[i] # <<>>
        /\ Has(FrontObj(i), "temperature") /\ FrontObj(i)["temperature"] < 0
        /\ Has(FrontObj(i), "max_tokens") /\ FrontObj(i)["max_tokens"] = 16
        /\ DOMAIN backendIn[i][1].options = {"num_predict"}

\* C7: a valid POST whose backend call returns 200 with a parseable body is
\* answered 200 with object "chat.completion", exactly one choice of index 0,
\* role "assistant", content equal to the backend's response text and
\* finish_reason "stop", and with the model of the front request.
C7_Completion ==
    \A i \in Handlers :
        (Done(i) /\ backendOut[i] # <<>> /\ ~BackendFailed(backendOut[i][1])) =>
            /\ w[i].status = 200
            /\ Len(w[i].body) = 1
            /\ LET b == w[i].body[1] IN
               /\ IsChat(b)
               /\ b.object = "chat.completion"
               /\ Len(b.choices) = 1
               /\ b.choices[1].index = 0
               /\ b.choices[1].message.role = "assistant"
               /\ b.choices[1].message.content =
                      Get(backendOut[i][1].body.parsed[1], "response", <<>>)
               /\ b.choices[1].finish_reason = "stop"
               /\ b.model = FrontObj(i)["model"]

\* a completion was emitted for a backend reply that names another model
C7_Witness ==
    \E i \in Handlers :
        /\ Done(i) /\ backendOut[i] # <<>>
        /\ ~BackendFailed(backendOut[i][1])
        /\ Has(backendOut[i][1].body.parsed[1], "model")
        /\ backendOut[i][1].body.parsed[1]["model"] # FrontObj(i)["model"]
        /\ w[i].body # <<>> /\ IsChat(w[i].body[1])
        /\ w[i].body[1].choices[1].message.content = <<"H","i">>

\* C8: an OPTIONS request ends with status 200, an empty body and the three
\* cross-origin headers; it never reaches validation and never causes a
\* backend call, whatever its body.
C8_Options ==
    \A i \in Handlers :
        (httpReq[i] # <<>> /\ httpReq[i][1].method = "OPTIONS") =>
            /\ pc[i] \in {"cors", "done"}
            /\ trace[i] = <<>>
            /\ openAIReq[i] = <<>>
            /\ backendIn[i] = <<>>
            /\ Done(i) =>
                  /\ w[i].status = 200
                  /\ w[i].body = <<>>
                  /\ Has(w[i].headers, "Access-Control-Allow-Origin")
                  /\ w[i].headers["Access-Control-Allow-Origin"] = "*"
                  /\ Has(w[i].headers, "Access-Control-Allow-Methods")
                  /\ w[i].headers["Access-Control-Allow-Methods"] = "POST, OPTIONS"
                  /\ Has(w[i].headers, "Access-Control-Allow-Headers")
                  /\ w[i].headers["Access-Control-Allow-Headers"] =
                         "Content-Type, Authorization"

\* an OPTIONS request carrying an otherwise valid body has been answered
C8_Witness ==
    \E i \in Handlers :
        /\ Done(i)
        /\ httpReq[i][1].method = "OPTIONS"
        /\ httpReq[i][1].body.parsed # <<>>
        /\ ~EmptyOrAbsent(FrontObj(i), "messages")
        /\ ~EmptyOrAbsent(FrontObj(i), "model")
        /\ w[i].status = 200

\* a response without its random id and its timestamp
StripBody(b) ==
    IF IsChat(b)
    THEN [object |-> b.object, model |-> b.model, choices |-> b.choices,
          usage |-> b.usage]
    ELSE b

Strip(rw) == [rw EXCEPT !.body = [k \in 1..Len(rw.body) |-> StripBody(rw.body[k])]]

\* what a request r answered by the backend with out (<<>> when the backend
\* is not called) is answered with when it is the only request ever made
Alone(r, out) ==
    LET cors == corsMiddleware(FreshWriter, r)
        rw == SetHeader(cors[1], "Content-Type", CONTENT_TYPE_JSON)
        rej == Rejection(r)
    IN IF cors[2] = "done" THEN cors[1]
       ELSE IF rej # <<>>
       THEN sendError(rw, rej[1].message, rej[1].type, rej[1].code, rej[1].status)
       ELSE LET oreq == BuildOllamaRequest(Decode(r.body))
                res == handleResult(rw, SendToOllamaResult(out[1]))
            IN IF res[3] = "done" THEN res[1]
               ELSE Strip(Encode(rw, BuildOpenAIResponse(oreq, res[2][1], <<>>, 0)))

\* C9 (as claimed): under any interleaving the response to a request is
\* determined only by its own method and body and the backend's reply to its
\* own call: two requests with the same method, body and backend reply get
\* the same response.
C9_ResponseDetermined ==
    \A i, j \in Handlers :
        (Done(i) /\ Done(j) /\ httpReq[i] = httpReq[j]
         /\ backendOut[i] = backendOut[j]) => w[i] = w[j]

\* C9 (amended): apart from the random id and the created timestamp of a
\* chat completion, the response to a request is determined only by its own
\* method and body and the backend's reply to its own call; it is the
\* response the request gets when no other request, failing or not, is ever
\* made.
C9_Isolated ==
    /\ \A i, j \in Handlers :
          (Done(i) /\ Done(j) /\ httpReq[i] = httpReq[j]
           /\ backendOut[i] = backendOut[j]) => Strip(w[i]) = Strip(w[j])
    /\ \A i \in Handlers :
          Done(i) => Strip(w[i]) = Alone(httpReq[i][1], backendOut[i])

\* a request completed with 200 although another request, made before its
\* backend call returned, ended in an error
C9_Witness ==
    \E i, j \in Handlers :
        /\ i # j
        /\ Done(i) /\ w[i].status = 200 /\ w[i].body # <<>>
        /\ Done(j) /\ w[j].status = 500
        /\ httpReq[i] = httpReq[j]

IsPrefix(s, t) == Len(s) <= Len(t) /\ \A k \in 1..Len(s) : s[k] = t[k]

Stages == <<"Validate", "BuildBackRequest", "Invoke", "BuildFrontResponse", "Emit">>

\* request i passes the four validation checks
PassesValidation(i) ==
    /\ httpReq[i][1].method = "POST"
    /\ httpReq[i][1].body.parsed # <<>>
    /\ ~EmptyOrAbsent(FrontObj(i), "messages")
    /\ ~EmptyOrAbsent(FrontObj(i), "model")

====
